---- MODULE Spec2Model ----
(***************************************************************************)
(* Model of the SwedenProtidin news bot: the dedupe store (posted.json),   *)
(* URL normalisation, the translator and the orchestrator run of           *)
(* newsbot/main.py.                                                         *)
(*                                                                         *)
(* Strings are sequences of one-character strings.  Python's None is the   *)
(* value None below, which is no text (its single element is no            *)
(* character of any alphabet used here).                                   *)
(***************************************************************************)
EXTENDS Integers, Sequences, FiniteSets, TLC

\* ---------------------------------------------------------------- bounds
MaxStrLen == 3      \* longest href / url argument drawn as an input
MaxSaves == 3       \* save_posted_article calls in the store specification
MaxPad == 1         \* blanks before and after a text given to translate_text
MaxGap == 2         \* whitespace characters between the two words of such a text
MaxMainRuns == 2    \* orchestrator runs, one after the other
MaxArticles == 2    \* articles in one scrape result
MaxTrail == 3       \* slashes and blanks that end the href of a listing link
MaxSentenceCount == 3   \* sentences of a text given to summarize
MaxSentences == 3   \* largest max_sentences argument of summarize
MaxLinks == 6       \* links of a listing page
MaxDocSentences == 20   \* sentences of a document in the sentence count specification
MaxRunSaves == 2    \* urls one of two overlapping runs records

\* --------------------------------------------------------------- strings
None == <<"<None>">>
NoCall == <<"<no call>">>

\* the characters of the url inputs: a letter, the slash and a blank
UrlChars == {"h", "/", " "}
\* Python's str.strip() / str.split() whitespace
WS == {" ", "\n"}

Ord(c) == CASE c = "\n" -> 10 [] c = " " -> 32 [] c = "\"" -> 34
            [] c = "'" -> 39 [] c = "/" -> 47 [] c = "A" -> 65
            [] c = "B" -> 66 [] c = "S" -> 83 [] c = "T" -> 84
            [] c = "a" -> 97 [] c = "b" -> 98 [] c = "h" -> 104 [] OTHER -> 200

Strings(alphabet, n) == UNION {[1..k -> alphabet] : k \in 0..n}

\* Python truthiness of an optional string: `not x`
Falsy(x) == x = None \/ x = <<>>

RECURSIVE FirstNonWs(_, _)
FirstNonWs(s, i) == IF i > Len(s) \/ s[i] \notin WS THEN i ELSE FirstNonWs(s, i + 1)

RECURSIVE LastNonWs(_, _)
LastNonWs(s, i) == IF i < 1 \/ s[i] \notin WS THEN i ELSE LastNonWs(s, i - 1)

\* str.strip()
Strip(s) == SubSeq(s, FirstNonWs(s, 1), LastNonWs(s, Len(s)))

EndsWith(s, c) == Len(s) > 0 /\ s[Len(s)] = c
StartsWith(s, c) == Len(s) > 0 /\ s[1] = c

\* Python's ordering of str: lexicographic by code point
RECURSIVE StrLess(_, _)
StrLess(a, b) ==
    IF a = <<>> THEN b # <<>>
    ELSE IF b = <<>> THEN FALSE
    ELSE IF Ord(a[1]) # Ord(b[1]) THEN Ord(a[1]) < Ord(b[1])
    ELSE StrLess(Tail(a), Tail(b))

\* sorted(list(S))
RECURSIVE Sorted(_)
Sorted(S) ==
    IF S = {} THEN <<>>
    ELSE LET m == CHOOSE x \in S : \A y \in S \ {x} : StrLess(x, y)
         IN <<m>> \o Sorted(S \ {m})

\* ------------------------------------------------------- normalize_url
normalize_url(url) ==
    IF Falsy(url) THEN <<>>
    ELSE LET u == Strip(url)
         IN IF EndsWith(u, "/") THEN SubSeq(u, 1, Len(u) - 1) ELSE u

\* ------------------------------------------------------ the dedupe store
\* posted.json: [exists, urls] where urls is the JSON array
NoFile == [exists |-> FALSE, urls |-> <<>>]

load_posted_articles(f) ==
    IF f.exists
    THEN {normalize_url(f.urls[i]) : i \in {j \in DOMAIN f.urls : ~Falsy(f.urls[j])}}
    ELSE {}

save_posted_article(f, url) ==
    LET posted == load_posted_articles(f)
        normalized_url == normalize_url(url)
    IN IF ~Falsy(normalized_url)
       THEN [exists |-> TRUE, urls |-> Sorted(posted \cup {normalized_url})]
       ELSE f

\* ------------------------------------------------------- translate_text
OPENAI_MAX_CHARS == 500       \* text[:500] sent to the LLM tier
GOOGLE_MAX_CHARS == 8000      \* text[:8000] sent to the fallback service
TEST_MAX_CHARS == 5000        \* the limit test_translate_text_truncates_long_text expects

Rep(c, n) == [i \in 1..n |-> c]

\* text[:n]
Prefix(text, n) == IF Len(text) > n THEN SubSeq(text, 1, n) ELSE text

\* ' '.join(text.split()): words joined by single blanks, no blank at the ends
JoinSplit(text) ==
    LET first == FirstNonWs(text, 1)
        last == LastNonWs(text, Len(text))
        Keep(i) == \/ text[i] \notin WS
                   \/ (i > first /\ i < last /\ text[i - 1] \notin WS)
        sel == SelectSeq([i \in 1..Len(text) |-> i], Keep)
    IN [j \in 1..Len(sel) |-> IF text[sel[j]] \in WS THEN " " ELSE text[sel[j]]]

\* translated[1:-1] when the reply is wrapped in the quote character q
Unquote(t, q) == IF StartsWith(t, q) /\ EndsWith(t, q) THEN SubSeq(t, 2, Len(t) - 1) ELSE t

\* the guard of translate_text: `not text or not text.strip()`
\* (mutant: the whitespace-only test is left out)
translate_guard_no_strip(text) == Falsy(text)

translate_guard(text) == Falsy(text) \/ Falsy(Strip(text))

\* the fallback tier: whitespace normalisation, length cap, translator.translate
\* google is the service's outcome: [kind |-> "raise"] or [kind |-> "ok", text |-> t]
\* (mutant: the text goes to the service as it came, not normalised)
translate_fallback_raw(text, dest, google, openai_called, openai_arg) ==
    LET capped == Prefix(text, GOOGLE_MAX_CHARS)
    IN [ret |-> IF google.kind = "ok" THEN google.text ELSE capped,
        raised |-> FALSE,
        openai_called |-> openai_called, openai_arg |-> openai_arg,
        google_called |-> TRUE, google_arg |-> capped, google_dest |-> dest,
        google_calls |-> 1]

translate_fallback(text, dest, google, openai_called, openai_arg) ==
    LET joined == JoinSplit(text)
        capped == IF Len(joined) > GOOGLE_MAX_CHARS
                  THEN SubSeq(joined, 1, GOOGLE_MAX_CHARS) ELSE joined
    IN [ret |-> IF google.kind = "ok" THEN google.text ELSE capped,
        raised |-> FALSE,
        openai_called |-> openai_called, openai_arg |-> openai_arg,
        google_called |-> TRUE, google_arg |-> capped, google_dest |-> dest,
        google_calls |-> 1]

\* translate_text(text, dest, use_openai) with the environment made explicit:
\* api_key is OPENAI_API_KEY being set, openai the outcome of requests.post
\* ([kind |-> "raise" | "status" | "bad_body" | "ok", content |-> reply]),
\* google the outcome of translator.translate.
translate_text(text, dest, use_openai, api_key, openai, google) ==
    IF translate_guard(text)
    THEN [ret |-> <<>>, raised |-> FALSE,
          openai_called |-> FALSE, openai_arg |-> NoCall,
          google_called |-> FALSE, google_arg |-> NoCall, google_dest |-> "-",
          google_calls |-> 0]
    ELSE IF use_openai /\ api_key
    THEN LET text_to_translate == Prefix(text, OPENAI_MAX_CHARS)
         IN IF openai.kind = "ok"
            THEN [ret |-> Unquote(Unquote(Strip(openai.content), "\""), "'"),
                  raised |-> FALSE,
                  openai_called |-> TRUE, openai_arg |-> text_to_translate,
                  google_called |-> FALSE, google_arg |-> NoCall, google_dest |-> "-",
          google_calls |-> 0]
            ELSE translate_fallback(text, dest, google, TRUE, text_to_translate)
    ELSE translate_fallback(text, dest, google, FALSE, NoCall)

\* ------------------------------------------------- format_facebook_post
LinkLabel == <<"@">>      \* stands for the fixed "source:" label of the template

format_facebook_post(title_bn, summary_bn, link) ==
    (IF ~Falsy(summary_bn) THEN summary_bn \o <<"\n", "\n">> ELSE <<>>) \o LinkLabel \o link

\* ---------------------------------------------- validate_facebook_token
FB_PAGE_ID == "page1"
RequiredPermissions == {"pages_read_engagement", "pages_manage_posts"}

\* resp is the outcome of the debug_token request:
\* kind "request_error" (transport error, timeout, non-2xx), "bad_body" (the
\* body is no JSON), "null_body" (the body is the JSON value null or a number:
\* `'data' not in result` raises TypeError), "null_data" (the object's data
\* member is null: data.get raises AttributeError), "no_data" or "data" with
\* the fields of result['data'].
\* json_error_caught: response.json() raises a RequestException subclass
\* (newer requests releases) or a plain ValueError (older ones).
validate_facebook_token(creds, resp, json_error_caught) ==
    IF ~creds THEN [is_valid |-> FALSE, raised |-> FALSE, called |-> FALSE]
    ELSE IF resp.kind = "request_error" THEN [is_valid |-> FALSE, raised |-> FALSE, called |-> TRUE]
    ELSE IF resp.kind = "bad_body"
         THEN [is_valid |-> FALSE, raised |-> ~json_error_caught, called |-> TRUE]
    ELSE IF resp.kind \in {"null_body", "null_data"}
         THEN [is_valid |-> FALSE, raised |-> TRUE, called |-> TRUE]
    ELSE IF resp.kind = "no_data" THEN [is_valid |-> FALSE, raised |-> FALSE, called |-> TRUE]
    ELSE IF ~resp.is_valid THEN [is_valid |-> FALSE, raised |-> FALSE, called |-> TRUE]
    ELSE IF resp.type # "PAGE" THEN [is_valid |-> FALSE, raised |-> FALSE, called |-> TRUE]
    ELSE IF resp.profile_id # FB_PAGE_ID THEN [is_valid |-> FALSE, raised |-> FALSE, called |-> TRUE]
    ELSE IF RequiredPermissions \ resp.scopes # {}
         THEN [is_valid |-> FALSE, raised |-> FALSE, called |-> TRUE]
    ELSE [is_valid |-> TRUE, raised |-> FALSE, called |-> TRUE]

\* ------------------------------------------------------ post_to_facebook
\* resp is the outcome of the feed request: "request_error" (transport error,
\* timeout, non-2xx), "bad_body" (the body is no JSON), "null_body" (the JSON
\* value null or a number: `'id' in result` raises TypeError), "text_body" (a
\* JSON string with the letters id in it: `'id' in result` is a substring
\* test), "no_id" or "id" (a JSON object without or with the member id).
post_to_facebook(creds, resp, json_error_caught) ==
    IF ~creds THEN [ok |-> FALSE, raised |-> FALSE]
    ELSE IF resp \in {"id", "text_body"} THEN [ok |-> TRUE, raised |-> FALSE]
    ELSE IF resp = "bad_body" THEN [ok |-> FALSE, raised |-> ~json_error_caught]
    ELSE IF resp = "null_body" THEN [ok |-> FALSE, raised |-> TRUE]
    ELSE [ok |-> FALSE, raised |-> FALSE]

\* ------------------------------------------ parse_category_page (the url)
BASE_URL == <<"h">>       \* the letter h stands for the scheme-and-host prefix

RECURSIVE RStripSlash(_)
RStripSlash(s) == IF EndsWith(s, "/") THEN RStripSlash(SubSeq(s, 1, Len(s) - 1)) ELSE s

\* the url parse_category_page records for a link's href
listing_url(href) ==
    RStripSlash(IF StartsWith(href, "h") THEN href ELSE BASE_URL \o href)

\* ------------------------------------------------------------ summarizer
\* the texts of the summarizer are over letters, terminal punctuation and
\* whitespace; they hold no digits, no @ and no url, so the date, e-mail and
\* url patterns of _clean_text match nothing in them
Lower == {"a"}
Upper == {"A"}
Punct == {".", "!", "?"}
MIN_SENTENCE_CHARS == 20      \* a sentence is kept when len(sentence) > 20
OPENAI_SUMMARY_CHARS == 3000  \* text[:3000] + "..." sent to the LLM summarizer
HF_SUMMARY_CHARS == 2000      \* text[:2000] given to the local model

Min(a, b) == IF a < b THEN a ELSE b
Max(a, b) == IF a > b THEN a ELSE b

\* the members of the set P of positions, in increasing order
Ascending(P, n) ==
    LET In(i) == i \in P
    IN SelectSeq([i \in 1..n |-> i], In)

\* ' '.join(parts)
RECURSIVE JoinBlank(_)
JoinBlank(parts) ==
    IF parts = <<>> THEN <<>>
    ELSE IF Len(parts) = 1 THEN parts[1]
    ELSE parts[1] \o <<" ">> \o JoinBlank(Tail(parts))

\* re.split(r'([.!?])\s+', text): the pieces between the matches, each with
\* the punctuation mark that ended it (sep is empty for the last piece)
SplitSentences(text) ==
    LET M == {i \in 1..(Len(text) - 1) : text[i] \in Punct /\ text[i + 1] \in WS}
        ms == Ascending(M, Len(text))
        start(k) == IF k = 1 THEN 1 ELSE FirstNonWs(text, ms[k - 1] + 1)
    IN [k \in 1..(Len(ms) + 1) |->
          [s |-> SubSeq(text, start(k), IF k <= Len(ms) THEN ms[k] - 1 ELSE Len(text)),
           sep |-> IF k <= Len(ms) THEN <<text[ms[k]]>> ELSE <<>>]]

\* `sentence and len(sentence) > 20` for the stripped piece
LongEnough(piece) == Len(Strip(piece.s)) > MIN_SENTENCE_CHARS

\* the stripped piece with its punctuation mark, or with a dot when it has none
WithPunct(piece) ==
    LET sentence == Strip(piece.s)
    IN IF piece.sep # <<>> THEN sentence \o piece.sep
       ELSE IF sentence[Len(sentence)] \notin Punct THEN sentence \o <<".">>
       ELSE sentence

PunctuatedSentences(text) ==
    LET kept == SelectSeq(SplitSentences(text), LongEnough)
    IN [k \in 1..Len(kept) |-> WithPunct(kept[k])]

\* SumySummaryGenerator._fallback_summary: the first sentences longer than 20
\* characters; the loop breaks once len(summary_parts) >= max_sentences,
\* which it tests after appending
fallback_summary(text, max_sentences) ==
    IF Falsy(text) THEN <<>>
    ELSE LET sentences == PunctuatedSentences(JoinSplit(text))
             n == Min(Len(sentences), Max(1, max_sentences))
         IN Strip(JoinSplit(JoinBlank(SubSeq(sentences, 1, n))))

\* SumySummaryGenerator._clean_text
clean_text(text) ==
    IF Falsy(text) THEN <<>>
    ELSE LET joined == JoinSplit(text)
             cleaned_sentences == PunctuatedSentences(joined)
         IN IF cleaned_sentences # <<>> THEN JoinBlank(cleaned_sentences) ELSE joined

\* parser.document.sentences: the tokenizer ends a sentence at a punctuation
\* mark that is followed by whitespace
document_sentences(cleaned_text) ==
    LET pieces == SplitSentences(cleaned_text)
        nonempty(p) == Strip(p.s \o p.sep) # <<>>
        kept == SelectSeq(pieces, nonempty)
    IN [k \in 1..Len(kept) |-> Strip(kept[k].s \o kept[k].sep)]

\* min(max_sentences, max(2, int(doc_sentences * 0.15)))
\* (mutant: without the floor of two sentences)
optimal_sentences_no_floor(doc_sentences, max_sentences) ==
    Min(max_sentences, (doc_sentences * 15) \div 100)

optimal_sentences(doc_sentences, max_sentences) ==
    Min(max_sentences, Max(2, (doc_sentences * 15) \div 100))

\* the ranker's answer: the `count` best sentences by the ranking `rank` (a
\* sequence of sentence numbers, best first), in document order
ranked_sentences(doc, count, rank) ==
    LET order == SelectSeq(rank, LAMBDA i : i <= Len(doc))
        best == {order[k] : k \in 1..Min(Max(count, 0), Len(order))}
        idxs == Ascending(best, Len(doc))
    IN [k \in 1..Len(idxs) |-> doc[idxs[k]]]

\* s with the character c put in after every position of P
InsertAfter(s, P, c) ==
    LET d == [k \in 1..(2 * Len(s)) |->
                IF k % 2 = 1 THEN s[(k + 1) \div 2]
                ELSE IF (k \div 2) \in P THEN c ELSE "<skip>"]
        Keep(x) == x # "<skip>"
    IN SelectSeq(d, Keep)

\* the matches re.sub takes from the candidate start positions C of a pattern
\* `width` characters wide: leftmost first, none overlapping an earlier one
RECURSIVE LeftmostMatches(_, _, _)
LeftmostMatches(C, from, width) ==
    LET rest == {c \in C : c >= from}
    IN IF rest = {} THEN {}
       ELSE LET m == CHOOSE c \in rest : \A d \in rest : c <= d
            IN {m} \cup LeftmostMatches(C, m + width, width)

\* re.sub(r'\.([A-Z])', r'. \1', s)
space_after_dot(s) ==
    InsertAfter(s, {i \in 1..(Len(s) - 1) : s[i] = "." /\ s[i + 1] \in Upper}, " ")

\* re.sub(r'([a-z])\s+([A-Z][a-z])', r'\1. \2', s), for s whose whitespace is
\* single blanks (the parts are whitespace-normalized and joined by a blank)
insert_boundaries(s) ==
    InsertAfter(s,
        LeftmostMatches({i \in 1..(Len(s) - 3) :
                            /\ s[i] \in Lower /\ s[i + 1] \in WS
                            /\ s[i + 2] \in Upper /\ s[i + 3] \in Lower}, 1, 4),
        ".")

\* re.sub(r'([.!?])([A-Za-z])', r'\1 \2', s)
space_after_punct(s) ==
    InsertAfter(s, {i \in 1..(Len(s) - 1) : s[i] \in Punct /\ s[i + 1] \in Lower \cup Upper}, " ")

\* lines 163-198: the summary built from the ranker's sentences
render_summary(summary_sentences) ==
    LET stripped == SelectSeq([k \in 1..Len(summary_sentences) |->
                                  JoinSplit(Strip(summary_sentences[k]))],
                              LAMBDA x : x # <<>>)
        summary_parts == [k \in 1..Len(stripped) |->
                            IF stripped[k][Len(stripped[k])] \notin Punct
                            THEN stripped[k] \o <<".">> ELSE stripped[k]]
    IN Strip(JoinSplit(space_after_punct(insert_boundaries(space_after_dot(
           JoinBlank(summary_parts))))))

\* SumySummaryGenerator.summarize. sumy is the state of the ranking library:
\* "missing" (the import failed in _initialize), "raise" (a call into it
\* raises inside the try block) or "ok"; rank is the ranker's ranking.
sumy_summarize(text, max_sentences, sumy, rank) ==
    IF sumy = "missing" THEN fallback_summary(text, max_sentences)
    ELSE IF Falsy(text) \/ Falsy(Strip(text)) THEN <<>>
    ELSE IF Falsy(clean_text(text)) THEN fallback_summary(text, max_sentences)
    ELSE IF sumy = "raise" THEN fallback_summary(text, max_sentences)
    ELSE LET doc == document_sentences(clean_text(text))
         IN IF Len(doc) < 3 THEN fallback_summary(text, max_sentences)
            ELSE render_summary(ranked_sentences(doc,
                     optimal_sentences(Len(doc), max_sentences), rank))

\* SimpleSummaryGenerator.summarize: re.split(r'[.!?]\s+', text), the first
\* max_sentences non-blank pieces joined by a blank
simple_summarize(text, max_sentences) ==
    IF Falsy(text) THEN <<>>
    ELSE LET pieces == SplitSentences(text)
             sentences == SelectSeq([k \in 1..Len(pieces) |-> Strip(pieces[k].s)],
                                    LAMBDA x : x # <<>>)
         IN JoinBlank(SubSeq(sentences, 1, Min(Len(sentences), Max(max_sentences, 0))))

\* TextRankSummaryGenerator.summarize: __init__ sets _initialized to False and
\* nothing calls _initialize, so the first branch (lines 497-500) is always
\* taken: a SumySummaryGenerator does the work
textrank_summarize(text, max_sentences, sumy, rank) ==
    sumy_summarize(text, max_sentences, sumy, rank)

\* OpenAISummaryGenerator.summarize. llm is the outcome of the request:
\* kind "raise" (transport error, timeout), "status" (auth, rate limit: non-2xx),
\* "bad_body" (no choices[0].message.content in it) or "ok" with the content.
\* The text is cut before the request, and the except branch passes on the
\* cut text.
openai_summarize(text, max_sentences, llm, sumy, rank) ==
    IF Falsy(text) \/ Falsy(Strip(text)) THEN <<>>
    ELSE LET cut == IF Len(text) > OPENAI_SUMMARY_CHARS
                    THEN SubSeq(text, 1, OPENAI_SUMMARY_CHARS) \o <<".", ".", ".">>
                    ELSE text
         IN IF llm.kind = "ok" THEN Strip(llm.content)
            ELSE sumy_summarize(cut, max_sentences, sumy, rank)

\* HuggingFaceSummaryGenerator.summarize. hf is the outcome of the local
\* model: kind "import_error" or "load_error" (raised by _initialize, before
\* the text is cut), "inference_error" (raised by the pipeline call, after
\* it) or "ok" with the summary_text.
\* (mutant: _initialize is called before the try block)
hf_summarize_unguarded_init(text, max_sentences, hf, sumy, rank) ==
    IF Falsy(text) \/ Falsy(Strip(text)) THEN [ret |-> <<>>, raised |-> FALSE]
    ELSE IF hf.kind \in {"import_error", "load_error"} THEN [ret |-> NoCall, raised |-> TRUE]
    ELSE IF hf.kind = "inference_error"
    THEN [ret |-> sumy_summarize(Prefix(text, HF_SUMMARY_CHARS), max_sentences, sumy, rank),
          raised |-> FALSE]
    ELSE [ret |-> Strip(hf.content), raised |-> FALSE]

hf_summarize(text, max_sentences, hf, sumy, rank) ==
    IF Falsy(text) \/ Falsy(Strip(text)) THEN [ret |-> <<>>, raised |-> FALSE]
    ELSE IF hf.kind \in {"import_error", "load_error"}
    THEN [ret |-> sumy_summarize(text, max_sentences, sumy, rank), raised |-> FALSE]
    ELSE IF hf.kind = "inference_error"
    THEN [ret |-> sumy_summarize(Prefix(text, HF_SUMMARY_CHARS), max_sentences, sumy, rank),
          raised |-> FALSE]
    ELSE [ret |-> Strip(hf.content), raised |-> FALSE]

\* summarize of the implementation impl: what it returns, and whether it raised
summarize(impl, text, max_sentences, backend, sumy, rank) ==
    CASE impl = "sumy" ->
           [ret |-> sumy_summarize(text, max_sentences, sumy, rank), raised |-> FALSE]
      [] impl = "textrank" ->
           [ret |-> textrank_summarize(text, max_sentences, sumy, rank), raised |-> FALSE]
      [] impl = "openai" ->
           [ret |-> openai_summarize(text, max_sentences, backend, sumy, rank), raised |-> FALSE]
      [] impl = "huggingface" -> hf_summarize(text, max_sentences, backend, sumy, rank)
      [] impl = "simple" -> [ret |-> simple_summarize(text, max_sentences), raised |-> FALSE]

\* SumySummaryGenerator.summarize reaches its ranker (lines 159-161)
sumy_ranks(text, sumy) ==
    /\ sumy = "ok"
    /\ ~Falsy(text) /\ ~Falsy(Strip(text)) /\ ~Falsy(clean_text(text))
    /\ Len(document_sentences(clean_text(text))) >= 3

\* the ranking algorithm that ranks the sentences in a summarize call of the
\* implementation impl: SumySummaryGenerator's _summarizer_class is
\* LexRankSummarizer (line 45), and every other implementation that ranks
\* does it through a SumySummaryGenerator
ranker(impl, text, backend, sumy) ==
    CASE impl \in {"sumy", "textrank"} ->
           IF sumy_ranks(text, sumy) THEN "lexrank" ELSE "none"
      [] impl = "openai" ->
           IF ~Falsy(text) /\ ~Falsy(Strip(text)) /\ backend.kind # "ok"
              /\ sumy_ranks(IF Len(text) > OPENAI_SUMMARY_CHARS
                            THEN SubSeq(text, 1, OPENAI_SUMMARY_CHARS) \o <<".", ".", ".">>
                            ELSE text, sumy)
           THEN "lexrank" ELSE "none"
      [] impl = "huggingface" ->
           IF ~Falsy(text) /\ ~Falsy(Strip(text)) /\ backend.kind # "ok"
              /\ sumy_ranks(IF backend.kind = "inference_error"
                            THEN Prefix(text, HF_SUMMARY_CHARS) ELSE text, sumy)
           THEN "lexrank" ELSE "none"
      [] impl = "simple" -> "none"

\* the constructor of the implementation: only OpenAISummaryGenerator.__init__
\* raises (ValueError), when neither api_key nor OPENAI_API_KEY is set
init_raises(impl, api_key) == impl = "openai" /\ ~api_key

\* the number of sentences of a text: the runs of terminal punctuation in it,
\* and the unterminated segment at its end if there is one
CountSentences(s) ==
    Cardinality({i \in 1..Len(s) : s[i] \in Punct /\ (i = 1 \/ s[i - 1] \notin Punct)})
    + (IF Strip(s) # <<>> /\ Strip(s)[Len(Strip(s))] \notin Punct THEN 1 ELSE 0)

VARIABLES posted_json,   \* the persisted store file
          st_arg,        \* store specification: argument of the last save_posted_article
          st_loaded,     \* store specification: result of the last load_posted_articles
          st_reloaded,   \* store specification: a load happened after the last save
          st_saves,      \* store specification: number of saves so far
          tr_in,         \* translator specification: the call's arguments and environment
          tr_pc,         \* translator specification: "ready" before the call, "done" after
          tr_out,        \* translator specification: what translate_text did and returned
          fb_in,         \* Graph API specification: credentials and the two responses
          fb_out,        \* Graph API specification: results of the two functions
          sm_in,         \* summarizer specification: implementation, text, backend outcomes
          sm_pc,         \* summarizer specification: "ready" before the calls, "done" after
          sm_out,        \* summarizer specification: what construction and summarize did
          pg_links,      \* page parser specification: links of the page taken so far
          pg_articles,   \* page parser specification: the articles list
          pg_ret,        \* page parser specification: what parse_category_page returned
          cn_in,         \* sentence count specification: doc_sentences and max_sentences
          cn_out,        \* sentence count specification: the counts asked of the ranker
          fc_in,         \* factory specification: the summarizer section and the API key
          fc_out,        \* factory specification: what building the summarizer gave
          cc_runs,       \* overlapping runs specification: each run's position and locals
          run,           \* number of orchestrator runs started
          pc,            \* position of main(): idle, load, scrape, loop, done, crashed
          outcome,       \* how the current run ended, "running" until then
          env,           \* the run's environment: credentials, API key, config.json
          max_posts,     \* MAX_POSTS
          posted_articles, \* main's set loaded at the start of the run
          n_articles,    \* len(all_articles)
          idx,           \* articles of all_articles the loop has taken
          posted_count,
          skipped_count,
          calls,         \* calls made by the current run, by kind
          file_at_start, \* posted.json when the current run started
          pub_run,       \* normalized urls published by the current run
          pub_ever,      \* normalized urls published by any run
          pub_twice,     \* normalized urls published more than once
          tried_run,     \* normalized urls the current run passed to post_to_facebook
          tried_twice,   \* those it passed more than once
          last           \* what the last loop iteration did

storeVars == <<posted_json, st_arg, st_loaded, st_reloaded, st_saves>>
stVars == <<st_arg, st_loaded, st_reloaded, st_saves>>
trVars == <<tr_in, tr_pc, tr_out>>
fbVars == <<fb_in, fb_out>>
smVars == <<sm_in, sm_pc, sm_out>>
pgVars == <<pg_links, pg_articles, pg_ret>>
cnVars == <<cn_in, cn_out>>
fcVars == <<fc_in, fc_out>>
auxVars == <<pg_links, pg_articles, pg_ret, cn_in, cn_out, fc_in, fc_out, cc_runs>>
mainVars == <<run, pc, outcome, env, max_posts, posted_articles, n_articles, idx,
              posted_count, skipped_count, calls, file_at_start, pub_run, pub_ever,
              pub_twice, tried_run, tried_twice, last>>
vars == <<posted_json, st_arg, st_loaded, st_reloaded, st_saves, tr_in, tr_pc, tr_out,
          fb_in, fb_out, sm_in, sm_pc, sm_out,
          pg_links, pg_articles, pg_ret, cn_in, cn_out, fc_in, fc_out, cc_runs,
          run, pc, outcome, env, max_posts, posted_articles, n_articles, idx,
          posted_count, skipped_count, calls, file_at_start, pub_run, pub_ever,
          pub_twice, tried_run, tried_twice, last>>

NoResult == [ret |-> NoCall, raised |-> FALSE,
             openai_called |-> FALSE, openai_arg |-> NoCall,
             google_called |-> FALSE, google_arg |-> NoCall, google_dest |-> "-",
             google_calls |-> 0]
NoInput == [text |-> NoCall, dest |-> "-", use_openai |-> FALSE, api_key |-> FALSE,
            openai |-> [kind |-> "raise", content |-> <<>>],
            google |-> [kind |-> "raise", text |-> <<>>]]
TrIdle == tr_in = NoInput /\ tr_pc = "idle" /\ tr_out = NoResult
NoVerdict == [is_valid |-> FALSE, raised |-> FALSE, called |-> FALSE, done |-> FALSE]
NoPost == [ok |-> FALSE, raised |-> FALSE, done |-> FALSE]
NoFbInput == [creds |-> FALSE, json_error_caught |-> TRUE, post |-> "request_error",
              token |-> [kind |-> "request_error", is_valid |-> FALSE, type |-> "USER",
                         profile_id |-> "page2", scopes |-> {}]]
FbIdle == fb_in = NoFbInput /\ fb_out = [validate |-> NoVerdict, post |-> NoPost]
NoBackend == [kind |-> "none", content |-> <<>>]
NoSmInput == [impl |-> "none", api_key |-> FALSE, text |-> NoCall, max_sentences |-> 0,
              backend |-> NoBackend, sumy |-> "missing", rank |-> <<>>]
NoSmOutput == [init_raised |-> FALSE, ret |-> NoCall, raised |-> FALSE, ranker |-> "none"]
SmIdle == sm_in = NoSmInput /\ sm_pc = "idle" /\ sm_out = NoSmOutput
NoCount == 0 - 1
NoCounts == [doc_sentences |-> 0, max_sentences |-> 0]
NoRequests == [sumy |-> NoCount, textrank |-> NoCount]
NoFcInput == [type |-> "none", api_key |-> FALSE, language |-> "absent",
              output_language |-> "absent"]
NoFcOutput == [built |-> FALSE, instance |-> "none", raised |-> "none"]
NoRun == [pc |-> "idle", posted |-> {}, url |-> NoCall, recorded |-> {},
          stale |-> FALSE, wrote_stale |-> FALSE, saves |-> 0]
NoParse == [returned |-> FALSE, articles |-> <<>>]
PgIdle == pg_links = 0 /\ pg_articles = <<>> /\ pg_ret = NoParse
CnIdle == cn_in = NoCounts /\ cn_out = NoRequests
FcIdle == fc_in = NoFcInput /\ fc_out = NoFcOutput
CcIdle == cc_runs = <<NoRun, NoRun>>
AuxIdle == PgIdle /\ CnIdle /\ FcIdle /\ CcIdle
MAX_POSTS == 1
NoLimit == 0 - 1          \* MAX_POSTS = None
NoCalls == [validate |-> 0, scrape |-> 0, post |-> 0, published |-> 0, store_read |-> 0,
            store_write |-> 0]
NoEnv == [creds |-> FALSE, openai_key |-> FALSE, summarizer |-> "none", verdict |-> "none"]
NoLast == [kind |-> "none", has_url |-> FALSE, has_title |-> FALSE,
           in_store |-> FALSE, content_already_bangla |-> FALSE,
           body_translated |-> FALSE, summary_bn |-> NoCall, post_called |-> FALSE,
           post_ok |-> FALSE, d_posted |-> 0, d_skipped |-> 0, d_writes |-> 0]
MainIdle ==
    /\ run = 0 /\ pc = "idle" /\ outcome = "none" /\ env = NoEnv
    /\ max_posts = MAX_POSTS
    /\ posted_articles = {} /\ n_articles = 0 /\ idx = 0
    /\ posted_count = 0 /\ skipped_count = 0
    /\ calls = NoCalls /\ file_at_start = NoFile
    /\ pub_run = {} /\ pub_ever = {} /\ pub_twice = {}
    /\ tried_run = {} /\ tried_twice = {} /\ last = NoLast
StoreIdle == posted_json = NoFile /\ st_arg = NoCall /\ st_loaded = {}
             /\ st_reloaded = FALSE /\ st_saves = 0

StoreInit == StoreIdle /\ AuxIdle /\ TrIdle /\ FbIdle /\ SmIdle /\ MainIdle

StoreSave ==
    /\ st_saves < MaxSaves
    /\ \E u \in Strings(UrlChars, MaxStrLen) :
         /\ posted_json' = save_posted_article(posted_json, u)
         /\ st_arg' = u
    /\ st_saves' = st_saves + 1
    /\ st_reloaded' = FALSE
    /\ UNCHANGED <<st_loaded, trVars, auxVars, fbVars, smVars, mainVars>>

StoreLoad ==
    /\ st_arg # NoCall
    /\ st_loaded' = load_posted_articles(posted_json)
    /\ st_reloaded' = TRUE
    /\ UNCHANGED <<posted_json, st_arg, st_saves, trVars, auxVars, fbVars, smVars, mainVars>>

StoreNext == StoreSave \/ StoreLoad

SpecStore == StoreInit /\ [][StoreNext]_vars

\* C3: normalize_url is idempotent on every string (here: the argument of
\* every save, of any shape up to MaxStrLen, several trailing slashes and
\* blanks before a slash included).
C3_NormalizeIdempotent ==
    st_arg # NoCall => normalize_url(normalize_url(st_arg)) = normalize_url(st_arg)

\* C2: after save_posted_article(u), for a url u that names something
\* (normalize_url(u) is not empty), normalize_url(u) is a member of the
\* persisted store, and of the set a later load_posted_articles returns.
C2_SavedIsPosted ==
    (st_arg # NoCall /\ normalize_url(st_arg) # <<>>) =>
        /\ normalize_url(st_arg) \in load_posted_articles(posted_json)
        /\ (st_reloaded => normalize_url(st_arg) \in st_loaded)

\* ------------------------------------------- the translator specification
\* lengths around the three limits
TextLens == {1, 2, OPENAI_MAX_CHARS, OPENAI_MAX_CHARS + 1, TEST_MAX_CHARS,
             TEST_MAX_CHARS + 1, GOOGLE_MAX_CHARS, GOOGLE_MAX_CHARS + 1}

\* blanks, a word of n letters, optionally whitespace and a second word, blanks
TextInputs ==
    {None, <<>>, <<" ">>, <<"\n">>, <<" ", "\n", " ">>}
    \cup {Rep(" ", lead) \o Rep("A", n) \o Rep(" ", trail) :
            lead \in 0..MaxPad, n \in TextLens, trail \in 0..MaxPad}
    \cup {Rep(" ", lead) \o Rep("A", n) \o Rep(g, gap) \o <<"A">> :
            lead \in 0..MaxPad, n \in TextLens, g \in WS, gap \in 1..MaxGap}

OpenAIReplies == {<<"B">>, <<" ", "B", "\n">>, <<"\"", "B", "\"">>, <<"'", "B", "'">>, <<>>}
OpenAIOutcomes ==
    {[kind |-> k, content |-> <<>>] : k \in {"raise", "status", "bad_body"}}
    \cup {[kind |-> "ok", content |-> c] : c \in OpenAIReplies}
GoogleOutcomes == {[kind |-> "raise", text |-> <<>>], [kind |-> "ok", text |-> <<"B">>]}
\* (use_openai, OPENAI_API_KEY set, outcome of the LLM request)
TierEnvs ==
    {<<FALSE, k, [kind |-> "raise", content |-> <<>>]>> : k \in BOOLEAN}
    \cup {<<TRUE, FALSE, [kind |-> "raise", content |-> <<>>]>>}
    \cup {<<TRUE, TRUE, o>> : o \in OpenAIOutcomes}

TrInit ==
    /\ StoreIdle /\ AuxIdle
    /\ FbIdle
    /\ SmIdle
    /\ MainIdle
    /\ tr_pc = "ready"
    /\ tr_out = NoResult
    /\ \E t \in TextInputs, d \in {"bn", "fr"}, e \in TierEnvs, g \in GoogleOutcomes :
         tr_in = [text |-> t, dest |-> d, use_openai |-> e[1], api_key |-> e[2],
                  openai |-> e[3], google |-> g]

TrCall ==
    /\ tr_pc = "ready"
    /\ tr_out' = translate_text(tr_in.text, tr_in.dest, tr_in.use_openai,
                                tr_in.api_key, tr_in.openai, tr_in.google)
    /\ tr_pc' = "done"
    /\ UNCHANGED <<tr_in, storeVars, fbVars, auxVars, smVars, mainVars>>

TrNext == TrCall

SpecTranslate == TrInit /\ [][TrNext]_vars

\* every translation call made raised: the fallback service, and the LLM
\* request when the LLM tier is used
AllTranslationsRaise ==
    /\ tr_in.google.kind = "raise"
    /\ (tr_in.use_openai /\ tr_in.api_key) => tr_in.openai.kind = "raise"

\* C8: when every translation call raises, translate_text returns its input
\* text unchanged (and does not raise), for every input with a non-blank
\* character.
C8_PassthroughOnFailure ==
    (tr_pc = "done" /\ ~translate_guard(tr_in.text) /\ AllTranslationsRaise) =>
        (tr_out.ret = tr_in.text /\ ~tr_out.raised)

\* C9: for None, empty and whitespace-only input translate_text returns the
\* empty string and calls no translation service.
C9_BlankInputReturnsEmpty ==
    (tr_pc = "done" /\ (tr_in.text = None \/ Strip(tr_in.text) = <<>>)) =>
        (tr_out.ret = <<>> /\ ~tr_out.openai_called /\ ~tr_out.google_called)

C9_Witness ==
    /\ tr_pc = "done"
    /\ tr_in.text = <<" ", "\n", " ">>
    /\ tr_in.use_openai /\ tr_in.api_key
    /\ tr_out.ret = <<>>

\* C10: the text handed to the fallback service is at most 5000 characters
\* long: the first 5000 of a longer input, the whole input otherwise.
C10_FallbackArgAtMost5000 ==
    (tr_pc = "done" /\ tr_out.google_called) =>
        /\ Len(tr_out.google_arg) <= TEST_MAX_CHARS
        /\ tr_out.google_arg = Prefix(JoinSplit(tr_in.text), TEST_MAX_CHARS)

\* ------------------------------------------------------ the orchestrator
\* main() of newsbot/main.py, one run after the other (runs do not overlap)

\* lines 347 and 356: the run goes on only with credentials set and validated
\* (mutant: the validation verdict is ignored)
credentials_ok_unchecked(creds, is_valid) == creds

credentials_ok(creds, is_valid) == creds /\ is_valid

\* line 416: the dedupe test (mutant: it is never true)
already_posted_never(normalized_url, posted) == FALSE

already_posted(normalized_url, posted) == normalized_url \in posted

\* line 433: `if not title_sv` (mutant: every title passes)
title_missing_never(title_sv) == FALSE

title_missing(title_sv) == Falsy(title_sv)

\* line 474: `not summary_bn or not summary_bn.strip()`
\* (mutant: only the empty string is caught)
body_is_empty_no_strip(summary_bn) == Falsy(summary_bn)

body_is_empty(summary_bn) == Falsy(summary_bn) \/ Falsy(Strip(summary_bn))

TokenResponses ==
    {[kind |-> k, is_valid |-> FALSE, type |-> "USER", profile_id |-> "page2", scopes |-> {}] :
        k \in {"request_error", "bad_body", "no_data"}}
    \cup {[kind |-> "data", is_valid |-> v, type |-> t, profile_id |-> p, scopes |-> sc] :
            v \in BOOLEAN, t \in {"PAGE", "USER"}, p \in {"page1", "page2"},
            sc \in SUBSET RequiredPermissions}

\* the feed request's outcome, whether this build's response.json() error
\* is a RequestException, and whether open(POSTED_DB_FILE, 'w') succeeds
PostResponses == {<<"id", TRUE, TRUE>>, <<"no_id", TRUE, TRUE>>,
                  <<"request_error", TRUE, TRUE>>, <<"bad_body", TRUE, TRUE>>,
                  <<"bad_body", FALSE, TRUE>>}
\* the same outcomes in a run whose store file cannot be opened for writing
StoreFaultResponses == {<<p[1], p[2], FALSE>> : p \in PostResponses}

\* what scrape_news can return for one article: the url of the listing link,
\* the title and the summary of parse_article_page (title None when the page
\* failed to parse)
\* the hrefs of the listing links: the path of an article (a or b), relative
\* or absolute, followed by slashes and blanks
ListingHrefs ==
    {pre \o <<c>> \o trail :
        pre \in {<<>>, BASE_URL}, c \in {"a", "b"},
        trail \in Strings({"/", " "}, MaxTrail)}
ScrapedUrls == {listing_url(h) : h \in ListingHrefs}

\* the summarizer section of config.json: an extractive type, or type openai
\* without or with output_language bn
SummarizerConfigs == {"extractive", "openai_sv", "openai_bn"}

\* the summaries parse_article_page can give under a configuration: none, a
\* Swedish text S (an extractive summary, the LLM's own, or the extractive
\* fallback of a failed LLM request) or a Bangla text B (the LLM answering
\* in the output language); every implementation strips what it returns
SummariesFor(config) ==
    IF config = "openai_bn" THEN {<<>>, <<"S">>, <<"B">>} ELSE {<<>>, <<"S">>}

ArticlesFor(config) ==
    [url : ScrapedUrls, title_sv : {None, <<>>, <<"T">>}, summary_sv : SummariesFor(config)]

\* content_already_bangla (lines 445-455): what config.json says, or False
\* when reading it fails
ConfigReads(config) == {config = "openai_bn", FALSE}

\* outcomes of the two tiers of one translate_text call: the LLM request
\* answers, or it raises and the fallback service has outcome g
TierOutcomes(use_llm, googles) ==
    (IF use_llm THEN {<<[kind |-> "ok", content |-> <<"B">>], [kind |-> "raise", text |-> <<>>]>>}
     ELSE {})
    \cup {<<[kind |-> "raise", content |-> <<>>], g>> : g \in googles}
\* title_bn is not part of the message format_facebook_post builds, so one
\* outcome of the fallback service is drawn for the title
TitleGoogle == {[kind |-> "ok", text |-> <<"B">>]}
BodyGoogle == {[kind |-> "raise", text |-> <<>>]}
              \cup {[kind |-> "ok", text |-> t] : t \in {<<"B">>, <<" ">>, <<>>}}
NoTier == <<[kind |-> "raise", content |-> <<>>], [kind |-> "raise", text |-> <<>>]>>
NoOracle == [title |-> NoTier, body |-> NoTier, post |-> <<"request_error", TRUE, TRUE>>]

\* the outcomes of the calls one loop iteration makes for article a; only
\* the calls the iteration reaches have more than one outcome
OraclesFor(a, cfg, posts) ==
    IF Falsy(a.url) \/ already_posted(normalize_url(a.url), posted_articles)
       \/ title_missing(a.title_sv)
    THEN {NoOracle}
    ELSE {[title |-> t, body |-> b, post |-> p] :
            t \in TierOutcomes(env.openai_key, TitleGoogle),
            b \in (IF ~translate_guard(a.summary_sv) /\ ~cfg
                   THEN TierOutcomes(env.openai_key, BodyGoogle) ELSE {NoTier}),
            p \in (IF Falsy(a.summary_sv) THEN {NoOracle.post} ELSE posts)}

\* what one iteration of the loop did: how it left (continue, break, crash),
\* the branch it took, the store file, the tallies' increments and its calls
Iteration(exit, kind, file, d_posted, d_skipped, summary_bn, post_called, post_ok, reads, writes) ==
    [exit |-> exit, kind |-> kind, file |-> file, d_posted |-> d_posted,
     d_skipped |-> d_skipped, summary_bn |-> summary_bn, post_called |-> post_called,
     post_ok |-> post_ok, reads |-> reads, writes |-> writes]

\* lines 498-515: the publish call p has returned (or raised); write_ok is
\* whether save_posted_article can open the store file for writing (when it
\* cannot, the OSError leaves the try block before posted_count += 1)
\* (mutant: the url is recorded after a failed publish as well)
main_post_record_always(normalized_url, summary_bn, fb_message, p, write_ok) ==
    IF p.raised
    THEN Iteration("continue", "error", posted_json, 0, 0, summary_bn, TRUE, FALSE, 0, 0)
    ELSE IF p.ok /\ ~write_ok /\ ~Falsy(normalize_url(normalized_url))
    THEN Iteration("continue", "save_failed", posted_json, 0, 0, summary_bn, TRUE, TRUE, 1, 0)
    ELSE IF p.ok
    THEN Iteration(IF max_posts # NoLimit /\ posted_count + 1 >= max_posts
                   THEN "break" ELSE "continue",
                   "posted", save_posted_article(posted_json, normalized_url), 1, 0,
                   summary_bn, TRUE, TRUE, 1,
                   IF ~Falsy(normalize_url(normalized_url)) THEN 1 ELSE 0)
    ELSE Iteration("continue", "post_failed", save_posted_article(posted_json, normalized_url),
                   0, 0, summary_bn, TRUE, FALSE, 1, 1)

main_post(normalized_url, summary_bn, fb_message, p, write_ok) ==
    IF p.raised
    THEN Iteration("continue", "error", posted_json, 0, 0, summary_bn, TRUE, FALSE, 0, 0)
    ELSE IF p.ok /\ ~write_ok /\ ~Falsy(normalize_url(normalized_url))
    THEN Iteration("continue", "save_failed", posted_json, 0, 0, summary_bn, TRUE, TRUE, 1, 0)
    ELSE IF p.ok
    THEN Iteration(IF max_posts # NoLimit /\ posted_count + 1 >= max_posts
                   THEN "break" ELSE "continue",
                   "posted", save_posted_article(posted_json, normalized_url), 1, 0,
                   summary_bn, TRUE, TRUE, 1,
                   IF ~Falsy(normalize_url(normalized_url)) THEN 1 ELSE 0)
    ELSE Iteration("continue", "post_failed", posted_json, 0, 0, summary_bn, TRUE, FALSE, 0, 0)

\* lines 473-500: the empty-body gate, the formatter and the publish call
main_publish(url, normalized_url, title_bn, summary_bn, post) ==
    IF body_is_empty(summary_bn)
    THEN Iteration("continue", "empty_body", posted_json, 0, 1, summary_bn, FALSE, FALSE, 0, 0)
    ELSE main_post(normalized_url, summary_bn,
                   format_facebook_post(title_bn, summary_bn, url),
                   post_to_facebook(env.creds, post[1], post[2]), post[3])

\* lines 457-471: the body text; st is the result of translate_text(summary_sv)
\* and content_already_bangla what config.json, read again for every article, says
main_summary_bn(summary_sv, content_already_bangla, st) ==
    IF Falsy(summary_sv) THEN <<>>
    ELSE IF content_already_bangla THEN summary_sv
    ELSE IF Falsy(st.ret) THEN summary_sv ELSE st.ret

\* lines 439-441: t is the result of translate_text(title_sv)
main_title_bn(title_sv, t) == IF Falsy(t.ret) THEN title_sv ELSE t.ret

\* lines 405-435 of the loop, for article a: normalized_url is
\* normalize_url(a.url); cfg and o are what the iteration's reads and calls give
main_checks(a, normalized_url, cfg, o) ==
    IF Falsy(a.url)
    THEN Iteration("continue", "no_url", posted_json, 0, 0, NoCall, FALSE, FALSE, 0, 0)
    ELSE IF already_posted(normalized_url, posted_articles)
    THEN \* title[:50] of a None title raises TypeError outside the try block
         IF a.title_sv = None
         THEN Iteration("crash", "already_posted", posted_json, 0, 0, NoCall, FALSE, FALSE, 0, 0)
         ELSE Iteration("continue", "already_posted", posted_json, 0, 1, NoCall, FALSE, FALSE, 0, 0)
    ELSE IF title_missing(a.title_sv)
    THEN Iteration("continue", "no_title", posted_json, 0, 0, NoCall, FALSE, FALSE, 0, 0)
    ELSE main_publish(
            a.url, normalized_url,
            main_title_bn(a.title_sv,
                translate_text(a.title_sv, "bn", TRUE, env.openai_key, o.title[1], o.title[2])),
            main_summary_bn(a.summary_sv, cfg,
                translate_text(a.summary_sv, "bn", TRUE, env.openai_key, o.body[1], o.body[2])),
            o.post)

\* one iteration of the loop of main (lines 405-519) for article a
main_article(a, cfg, o) == main_checks(a, normalize_url(a.url), cfg, o)

\* the constructor scrape_news.py runs at import (lines 52-69), which main.py
\* triggers at line 72, before main() is called
summarizer_impl(config) == IF config = "extractive" THEN "sumy" ELSE "openai"

\* the import of scrape_news fails: the run ends where it raised
MainImportFails ==
    /\ pc \in {"idle", "done", "crashed"}
    /\ run < MaxMainRuns
    /\ \E creds \in BOOLEAN, key \in BOOLEAN, config \in SummarizerConfigs :
         /\ init_raises(summarizer_impl(config), key)
         /\ env' = [creds |-> creds, openai_key |-> key, summarizer |-> config,
                    verdict |-> "none"]
    /\ pc' = "crashed"
    /\ outcome' = "import_raised"
    /\ calls' = NoCalls
    /\ run' = run + 1
    /\ posted_articles' = {}
    /\ n_articles' = 0
    /\ idx' = 0
    /\ posted_count' = 0
    /\ skipped_count' = 0
    /\ file_at_start' = posted_json
    /\ pub_run' = {}
    /\ tried_run' = {}
    /\ tried_twice' = {}
    /\ last' = NoLast
    /\ UNCHANGED <<posted_json, stVars, trVars, auxVars, fbVars, smVars, max_posts, pub_ever, pub_twice>>

\* lines 346-375: the credential gate, reached when the imports succeeded
MainGate ==
    /\ pc \in {"idle", "done", "crashed"}
    /\ run < MaxMainRuns
    /\ \E creds \in BOOLEAN, key \in BOOLEAN, config \in SummarizerConfigs :
       \E v \in {validate_facebook_token(creds, resp, jec) :
                   resp \in TokenResponses, jec \in BOOLEAN} :
            /\ ~init_raises(summarizer_impl(config), key)
            /\ env' = [creds |-> creds, openai_key |-> key, summarizer |-> config,
                       verdict |-> IF ~creds THEN "missing"
                                   ELSE IF v.raised THEN "raised"
                                   ELSE IF v.is_valid THEN "valid" ELSE "invalid"]
            /\ calls' = [NoCalls EXCEPT !.validate = IF v.called THEN 1 ELSE 0]
            /\ pc' = IF ~creds THEN "done"
                     ELSE IF v.raised THEN "crashed"
                     ELSE IF credentials_ok(creds, v.is_valid) THEN "load" ELSE "done"
            /\ outcome' = IF ~creds THEN "no_credentials"
                          ELSE IF v.raised THEN "validation_raised"
                          ELSE IF credentials_ok(creds, v.is_valid) THEN "running"
                          ELSE "invalid_token"
    /\ run' = run + 1
    /\ posted_articles' = {}
    /\ n_articles' = 0
    /\ idx' = 0
    /\ posted_count' = 0
    /\ skipped_count' = 0
    /\ file_at_start' = posted_json
    /\ pub_run' = {}
    /\ tried_run' = {}
    /\ tried_twice' = {}
    /\ last' = NoLast
    /\ UNCHANGED <<posted_json, stVars, trVars, auxVars, fbVars, smVars, max_posts, pub_ever, pub_twice>>

\* lines 384-386
MainLoad ==
    /\ pc = "load"
    /\ posted_articles' = load_posted_articles(posted_json)
    /\ calls' = [calls EXCEPT !.store_read = @ + 1]
    /\ pc' = "scrape"
    /\ UNCHANGED <<posted_json, stVars, trVars, auxVars, fbVars, smVars, run, outcome, env, max_posts, n_articles,
                   idx, posted_count, skipped_count, file_at_start, pub_run, pub_ever,
                   pub_twice, tried_run, tried_twice, last>>

\* lines 388-400: scrape_news() raises, or returns n articles
MainScrape ==
    /\ pc = "scrape"
    /\ \E n \in (0 - 1)..MaxArticles :
         /\ n_articles' = IF n < 0 THEN 0 ELSE n
         /\ pc' = IF n <= 0 THEN "done" ELSE "loop"
         /\ outcome' = IF n < 0 THEN "scrape_failed"
                       ELSE IF n = 0 THEN "no_articles" ELSE "running"
    /\ calls' = [calls EXCEPT !.scrape = @ + 1]
    /\ UNCHANGED <<posted_json, stVars, trVars, auxVars, fbVars, smVars, run, env, max_posts, posted_articles,
                   idx, posted_count, skipped_count, file_at_start, pub_run, pub_ever,
                   pub_twice, tried_run, tried_twice, last>>

\* lines 405-519: the loop takes the next article; posts are the outcomes
\* the publish-and-record step can have
MainArticleWith(posts) ==
    /\ pc = "loop"
    /\ idx < n_articles
    /\ \E a \in ArticlesFor(env.summarizer), cfg \in ConfigReads(env.summarizer) :
       \E o \in OraclesFor(a, cfg, posts) :
       \E r \in {main_article(a, cfg, o)}, n \in {normalize_url(a.url)} :
            /\ posted_json' = r.file
            /\ posted_count' = posted_count + r.d_posted
            /\ skipped_count' = skipped_count + r.d_skipped
            /\ idx' = idx + 1
            /\ pc' = IF r.exit = "crash" THEN "crashed"
                     ELSE IF r.exit = "break" THEN "done" ELSE "loop"
            /\ outcome' = IF r.exit = "crash" THEN "crashed"
                          ELSE IF r.exit = "break" THEN "finished" ELSE "running"
            /\ calls' = [calls EXCEPT
                           !.post = @ + (IF r.post_called THEN 1 ELSE 0),
                           !.published = @ + (IF r.post_ok THEN 1 ELSE 0),
                           !.store_read = @ + r.reads,
                           !.store_write = @ + r.writes]
            /\ pub_run' = IF r.post_ok THEN pub_run \cup {n} ELSE pub_run
            /\ pub_ever' = IF r.post_ok THEN pub_ever \cup {n} ELSE pub_ever
            /\ pub_twice' = IF r.post_ok /\ n \in pub_ever
                            THEN pub_twice \cup {n} ELSE pub_twice
            /\ tried_run' = IF r.post_called THEN tried_run \cup {n} ELSE tried_run
            /\ tried_twice' = IF r.post_called /\ n \in tried_run
                              THEN tried_twice \cup {n} ELSE tried_twice
            /\ last' = [kind |-> r.kind,
                        has_url |-> ~Falsy(a.url), has_title |-> ~Falsy(a.title_sv),
                        in_store |-> n \in load_posted_articles(file_at_start),
                        content_already_bangla |-> r.summary_bn # NoCall /\ cfg,
                        body_translated |-> /\ r.summary_bn # NoCall
                                            /\ ~Falsy(a.summary_sv) /\ ~cfg,
                        summary_bn |-> r.summary_bn,
                        post_called |-> r.post_called, post_ok |-> r.post_ok,
                        d_posted |-> r.d_posted, d_skipped |-> r.d_skipped,
                        d_writes |-> r.writes]
    /\ UNCHANGED <<stVars, trVars, auxVars, fbVars, smVars, run, env, max_posts, posted_articles, n_articles,
                   file_at_start>>

\* the loop's step when the store file can be written
MainArticle == MainArticleWith(PostResponses)

\* the loop's step in a run whose store file cannot be opened for writing
MainArticleStoreFault == MainArticleWith(StoreFaultResponses)

\* lines 521-525: the loop ran out of articles
MainFinish ==
    /\ pc = "loop"
    /\ idx = n_articles
    /\ pc' = "done"
    /\ outcome' = "finished"
    /\ UNCHANGED <<posted_json, stVars, trVars, auxVars, fbVars, smVars, run, env, max_posts, posted_articles,
                   n_articles, idx, posted_count, skipped_count, calls, file_at_start,
                   pub_run, pub_ever, pub_twice, tried_run, tried_twice, last>>

Init == StoreIdle /\ AuxIdle /\ TrIdle /\ FbIdle /\ SmIdle /\ MainIdle

Next == MainImportFails \/ MainGate \/ MainLoad \/ MainScrape \/ MainArticle \/ MainFinish

Spec == Init /\ [][Next]_vars

\* one run of the orchestrator on a file system where writing posted.json fails
StoreFaultNext ==
    \/ (run = 0 /\ MainImportFails) \/ (run = 0 /\ MainGate) \/ MainLoad \/ MainScrape
    \/ MainArticleStoreFault \/ MainFinish

SpecStoreFault == Init /\ [][StoreFaultNext]_vars

Range(f) == {f[i] : i \in DOMAIN f}

\* C1: across runs that do not overlap, no normalized url is published
\* successfully more than once.
C1_PublishedAtMostOnce == pub_twice = {}

\* C4: when the store loaded at the start of the run contains the url of the
\* only article of the scrape result, the run makes no publish call and
\* leaves the persisted store as it was.
C4_DedupeGate ==
    (n_articles = 1 /\ idx = 1 /\ last.in_store) =>
        (calls.post = 0 /\ calls.store_write = 0 /\ posted_json = file_at_start)

C4_Witness ==
    /\ pc = "done" /\ outcome = "finished"
    /\ n_articles = 1 /\ idx = 1 /\ last.in_store
    /\ last.kind = "already_posted" /\ skipped_count = 1
    /\ posted_json.exists

\* C5: with the publish credential missing or reported invalid the run has
\* ended without a scrape, a publish call or a read or write of the store;
\* the validation request is the only call made, and is not made when the
\* credential is missing.
C5_CredentialGate ==
    (env.verdict \in {"missing", "invalid"}) =>
        /\ pc = "done"
        /\ calls.scrape = 0 /\ calls.post = 0
        /\ calls.store_read = 0 /\ calls.store_write = 0
        /\ posted_json = file_at_start
        /\ calls.validate = (IF env.verdict = "missing" THEN 0 ELSE 1)

C5_Witness ==
    /\ pc = "done" /\ run = 2
    /\ env.verdict = "invalid" /\ outcome = "invalid_token"
    /\ calls.validate = 1
    /\ posted_json.exists

\* C6: an iteration whose final body text summary_bn is empty or only
\* whitespace makes no publish call, adds one to the skipped tally and
\* nothing to the posted tally.
C6_EmptyBodyGate ==
    (last.kind # "none" /\ last.summary_bn # NoCall /\ Strip(last.summary_bn) = <<>>) =>
        (~last.post_called /\ last.d_skipped = 1 /\ last.d_posted = 0)

C6_Witness ==
    /\ last.kind = "empty_body"
    /\ last.summary_bn = <<" ">>
    /\ last.d_skipped = 1 /\ skipped_count >= 1 /\ posted_count = 0

\* C7: when a run has ended, the persisted store holds what it held before the
\* run plus exactly the normalized urls the run published, nothing else
\* added and nothing that was there changed.
C7_StoreGrowsByPublished ==
    (pc \in {"done", "crashed"}) =>
        Range(posted_json.urls) = Range(file_at_start.urls) \cup pub_run

\* ------------------------------------------- the Graph API specification
\* validate_facebook_token and post_to_facebook, each called once on
\* credentials and responses drawn at the start

FbTokenResponses ==
    TokenResponses
    \cup {[kind |-> k, is_valid |-> FALSE, type |-> "USER", profile_id |-> "page2", scopes |-> {}] :
            k \in {"null_body", "null_data"}}
FeedResponses == {"id", "no_id", "request_error", "bad_body", "null_body", "text_body"}

FbInit ==
    /\ StoreIdle /\ AuxIdle /\ TrIdle /\ SmIdle /\ MainIdle
    /\ fb_out = [validate |-> NoVerdict, post |-> NoPost]
    /\ \E creds \in BOOLEAN, jec \in BOOLEAN, t \in FbTokenResponses, p \in FeedResponses :
         fb_in = [creds |-> creds, json_error_caught |-> jec, post |-> p, token |-> t]

FbValidate ==
    /\ ~fb_out.validate.done
    /\ \E v \in {validate_facebook_token(fb_in.creds, fb_in.token, fb_in.json_error_caught)} :
         fb_out' = [fb_out EXCEPT !.validate = [is_valid |-> v.is_valid, raised |-> v.raised,
                                                called |-> v.called, done |-> TRUE]]
    /\ UNCHANGED <<fb_in, storeVars, trVars, auxVars, smVars, mainVars>>

FbPost ==
    /\ ~fb_out.post.done
    /\ \E r \in {post_to_facebook(fb_in.creds, fb_in.post, fb_in.json_error_caught)} :
         fb_out' = [fb_out EXCEPT !.post = [ok |-> r.ok, raised |-> r.raised, done |-> TRUE]]
    /\ UNCHANGED <<fb_in, storeVars, trVars, auxVars, smVars, mainVars>>

FbNext == FbValidate \/ FbPost

SpecFacebook == FbInit /\ [][FbNext]_vars

\* C11: post_to_facebook returns True exactly when the credentials are set
\* and the feed response carries an id member, and it never raises: a non-2xx
\* status, a timeout, a transport error and a body that is no JSON object
\* all give False.
C11_PostTrueIffId ==
    fb_out.post.done =>
        /\ ~fb_out.post.raised
        /\ fb_out.post.ok <=> (fb_in.creds /\ fb_in.post = "id")

\* the four conditions of a valid page credential
TokenGood(t) ==
    /\ t.kind = "data" /\ t.is_valid /\ t.type = "PAGE"
    /\ t.profile_id = FB_PAGE_ID /\ RequiredPermissions \subseteq t.scopes

\* C12: validate_facebook_token never raises, and reports the credential
\* valid exactly when the response has data saying the token is valid, of
\* type PAGE, for the configured page id and with both required scopes.
C12_ValidIffAllChecks ==
    fb_out.validate.done =>
        /\ ~fb_out.validate.raised
        /\ fb_out.validate.is_valid <=> (fb_in.creds /\ TokenGood(fb_in.token))

\* C13: no exception raised while the loop processes an article ends the
\* run: an article whose page failed to parse (title None) and a failure to
\* record the url only skip that article.
C13_LoopNeverAborts == outcome # "crashed"

\* C14: a run publishes at most MAX_POSTS articles, and once posted_count
\* has reached it the loop is over.
C14_PostCeiling ==
    max_posts # NoLimit =>
        /\ calls.published <= max_posts
        /\ (posted_count >= max_posts => pc \in {"done", "crashed"})

\* C18: a run started without the LLM credential is not aborted at the
\* construction of the summarizer; it goes on to the credential gate and the
\* loop with the fallback tiers.
C18_NoKeyRunNotAborted == (run > 0 /\ ~env.openai_key) => outcome # "import_raised"

\* a text of the source language: the model writes Swedish text with S
IsSwedish(text) == text # NoCall /\ text # None /\ "S" \in Range(text)

\* C20: with the summarizer configured as openai with output_language bn,
\* the body of every article handed to post_to_facebook was not translated
\* and is not Swedish.
C20_SkippedBodyIsBangla ==
    (env.summarizer = "openai_bn" /\ last.content_already_bangla /\ last.post_called) =>
        /\ ~last.body_translated
        /\ ~IsSwedish(last.summary_bn)

\* C22: the store file changes only in an iteration whose publish call
\* returned success, and then to what save_posted_article gives for that
\* article's url; an iteration whose publish call failed makes that one call,
\* leaves the file as it was and goes on with the loop.
C22_StoreWrittenAfterPublish ==
    [][/\ (posted_json' # posted_json) =>
            /\ last'.post_called /\ last'.post_ok
            /\ calls'.post = calls.post + 1
            /\ \E n \in tried_run' \cap pub_run' :
                  posted_json' = save_posted_article(posted_json, n)
       /\ (idx' = idx + 1 /\ last'.post_called /\ ~last'.post_ok) =>
            /\ posted_json' = posted_json
            /\ calls'.post = calls.post + 1
            /\ pc' = "loop"]_vars

\* a publish call failed in the second run: the url is not in the store, so
\* the next run's dedupe test lets the article through
C22_Witness ==
    /\ run = 2 /\ last.kind = "post_failed"
    /\ posted_json.exists /\ posted_json = file_at_start
    /\ tried_run # {}
    /\ tried_run \cap load_posted_articles(posted_json) = {}

\* C24: post_to_facebook is called only in an iteration whose article has a
\* non-empty url and title and whose body text summary_bn is not blank.
C24_PublishedIsComplete ==
    last.post_called =>
        /\ last.has_url /\ last.has_title
        /\ last.summary_bn # NoCall /\ ~Falsy(last.summary_bn)
        /\ Strip(last.summary_bn) # <<>>

C24_Witness ==
    /\ last.post_called /\ last.post_ok /\ last.kind = "posted"
    /\ last.has_url /\ last.has_title
    /\ calls.post = 1 /\ calls.store_write = 1

\* one run of the orchestrator under each setting of MAX_POSTS: None, 1 and 2
MaxPostsSettings == {NoLimit, MAX_POSTS, MAX_POSTS + 1}

MaxPostsInit ==
    /\ StoreIdle /\ AuxIdle /\ TrIdle /\ FbIdle /\ SmIdle
    /\ run = 0 /\ pc = "idle" /\ outcome = "none" /\ env = NoEnv
    /\ max_posts \in MaxPostsSettings
    /\ posted_articles = {} /\ n_articles = 0 /\ idx = 0
    /\ posted_count = 0 /\ skipped_count = 0
    /\ calls = NoCalls /\ file_at_start = NoFile
    /\ pub_run = {} /\ pub_ever = {} /\ pub_twice = {}
    /\ tried_run = {} /\ tried_twice = {} /\ last = NoLast

MaxPostsNext ==
    \/ (run = 0 /\ MainImportFails) \/ (run = 0 /\ MainGate) \/ MainLoad \/ MainScrape
    \/ MainArticle \/ MainFinish

SpecMaxPosts == MaxPostsInit /\ [][MaxPostsNext]_vars

\* C27: within one run no normalized url is passed to post_to_facebook
\* more than once.
C27_NoRepeatInRun == tried_twice = {}

\* ------------------------------------------ the summarizer specification
\* a summarizer of each implementation is constructed and its summarize is
\* called once, on a text, a max_sentences and backend outcomes drawn at the
\* start

\* sentences: a plain one and one with a capitalised word in it (both longer
\* than 20 characters), and a short one
PlainSentence == Rep("a", MIN_SENTENCE_CHARS + 1) \o <<".">>
NameSentence == Rep("a", MIN_SENTENCE_CHARS - 1) \o <<" ", "A", "a", ".">>
ShortSentence == <<"a", "a", ".">>
\* a sentence that takes a text beyond the LLM summarizer's 3000 characters
LongSentence == Rep("a", OPENAI_SUMMARY_CHARS - MIN_SENTENCE_CHARS) \o <<".">>

SentenceSeqs(n) == UNION {[1..k -> {PlainSentence, NameSentence, ShortSentence}] : k \in 0..n}

SumTexts ==
    {None, <<" ">>, <<" ", "\n">>, <<"a", "a">>, Rep("a", MIN_SENTENCE_CHARS + 1),
     <<" ">> \o PlainSentence \o <<"\n">>}
    \cup {JoinBlank(q) : q \in SentenceSeqs(MaxSentenceCount)}
    \cup {JoinBlank(<<LongSentence>> \o q) : q \in SentenceSeqs(MaxSentenceCount - 1)}

\* rankings of the sentences of a document: each sentence is the best one
\* in one of them
Ranks == {[k \in 1..MaxSentenceCount |-> ((first + k - 2) % MaxSentenceCount) + 1] :
            first \in 1..MaxSentenceCount}

\* a reply of the LLM or of the local model: a text of its own making
ManySentences == JoinBlank([k \in 1..(MaxSentences + 1) |-> <<"B", ".">>])
Replies == {<<"B", ".">>, <<" ", "B", ".", "\n">>, <<>>, ManySentences}
LlmOutcomes == {[kind |-> k, content |-> <<>>] : k \in {"raise", "status", "bad_body"}}
               \cup {[kind |-> "ok", content |-> c] : c \in Replies}
HfOutcomes == {[kind |-> k, content |-> <<>>] :
                  k \in {"import_error", "load_error", "inference_error"}}
              \cup {[kind |-> "ok", content |-> c] : c \in Replies}

\* the state of the ranking library with the ranking it gives
SumyStates == {<<"missing", <<>>>>, <<"raise", <<>>>>} \cup {<<"ok", r>> : r \in Ranks}
\* the ranking library is used only when the backend did not answer
SumyStatesFor(b) == IF b.kind = "ok" THEN {<<"missing", <<>>>>} ELSE SumyStates

SmInputs ==
    {[impl |-> i, api_key |-> FALSE, text |-> t, max_sentences |-> n,
      backend |-> NoBackend, sumy |-> y[1], rank |-> y[2]] :
        i \in {"sumy", "textrank"}, t \in SumTexts, n \in 1..MaxSentences, y \in SumyStates}
    \cup {[impl |-> "simple", api_key |-> FALSE, text |-> t, max_sentences |-> n,
           backend |-> NoBackend, sumy |-> "missing", rank |-> <<>>] :
            t \in SumTexts, n \in 1..MaxSentences}
    \cup {[impl |-> "openai", api_key |-> FALSE, text |-> t, max_sentences |-> n,
           backend |-> NoBackend, sumy |-> "missing", rank |-> <<>>] :
            t \in SumTexts, n \in 1..MaxSentences}
    \cup UNION {{[impl |-> "openai", api_key |-> TRUE, text |-> t, max_sentences |-> n,
                  backend |-> b, sumy |-> y[1], rank |-> y[2]] :
                    t \in SumTexts, n \in 1..MaxSentences, y \in SumyStatesFor(b)} :
                b \in LlmOutcomes}
    \cup UNION {{[impl |-> "huggingface", api_key |-> FALSE, text |-> t, max_sentences |-> n,
                  backend |-> b, sumy |-> y[1], rank |-> y[2]] :
                    t \in SumTexts, n \in 1..MaxSentences, y \in SumyStatesFor(b)} :
                b \in HfOutcomes}

SmInit ==
    /\ StoreIdle /\ AuxIdle /\ TrIdle /\ FbIdle /\ MainIdle
    /\ sm_pc = "ready"
    /\ sm_out = NoSmOutput
    /\ sm_in \in SmInputs

\* the constructor (lines 37-48, 258-275, 366-382, 474-479)
SmCreate ==
    /\ sm_pc = "ready"
    /\ sm_pc' = IF init_raises(sm_in.impl, sm_in.api_key) THEN "failed" ELSE "built"
    /\ sm_out' = [sm_out EXCEPT !.init_raised = init_raises(sm_in.impl, sm_in.api_key)]
    /\ UNCHANGED <<sm_in, storeVars, trVars, auxVars, fbVars, mainVars>>

SmSummarize ==
    /\ sm_pc = "built"
    /\ \E r \in {summarize(sm_in.impl, sm_in.text, sm_in.max_sentences, sm_in.backend,
                           sm_in.sumy, sm_in.rank)} :
         sm_out' = [sm_out EXCEPT !.ret = r.ret, !.raised = r.raised,
                                  !.ranker = ranker(sm_in.impl, sm_in.text, sm_in.backend,
                                                    sm_in.sumy)]
    /\ sm_pc' = "done"
    /\ UNCHANGED <<sm_in, storeVars, trVars, auxVars, fbVars, mainVars>>

SmNext == SmCreate \/ SmSummarize

SpecSummarize == SmInit /\ [][SmNext]_vars

\* C15: for an input of at least 3 sentences, the text summarize returns has
\* at most max_sentences sentences, for every implementation and also after
\* the post-processing of the graph-rank summarizer.
C15_AtMostMaxSentences ==
    (sm_pc = "done" /\ ~sm_out.raised /\ sm_in.text # None /\ CountSentences(sm_in.text) >= 3) =>
        CountSentences(sm_out.ret) <= sm_in.max_sentences

\* C16: for an input that is one sentence, the graph-rank summarizers (which
\* take the naive fallback path for it) return that sentence, with a dot
\* added when it has no terminal punctuation, and never the empty string.
C16_SingleSentenceReturned ==
    (/\ sm_pc = "done" /\ sm_in.impl \in {"sumy", "textrank"}
     /\ sm_in.text # None /\ CountSentences(sm_in.text) = 1) =>
        /\ sm_out.ret # <<>>
        /\ sm_out.ret \in {JoinSplit(sm_in.text), JoinSplit(sm_in.text) \o <<".">>}

\* C17: constructing a summarizer raises only for the LLM implementation
\* without an API key; summarize of a constructed summarizer never raises,
\* whatever its backend does (library missing, request or status error,
\* model load or inference error): it returns a string, and the empty
\* string for None, empty and whitespace-only input.
C17_SummarizeNeverRaises ==
    /\ (sm_pc # "ready") =>
          (sm_out.init_raised <=> (sm_in.impl = "openai" /\ ~sm_in.api_key))
    /\ (sm_pc = "done") =>
          /\ ~sm_out.raised
          /\ sm_out.ret # NoCall
          /\ (sm_in.text = None \/ Strip(sm_in.text) = <<>>) => sm_out.ret = <<>>

C17_Witness ==
    /\ sm_pc = "done"
    /\ sm_in.impl = "huggingface" /\ sm_in.backend.kind = "import_error"
    /\ sm_in.sumy = "missing"
    /\ sm_in.text = PlainSentence
    /\ sm_out.ret = PlainSentence /\ ~sm_out.raised

\* C19: when the request of the LLM summarizer fails (transport error, error
\* status, malformed response), summarize does not raise and returns what the
\* graph-rank summarizer returns for the text it was given.
C19_LlmFailureFallsBack ==
    (sm_pc = "done" /\ sm_in.impl = "openai"
     /\ sm_in.backend.kind \in {"raise", "status", "bad_body"}) =>
        /\ ~sm_out.raised
        /\ sm_out.ret = sumy_summarize(sm_in.text, sm_in.max_sentences, sm_in.sumy, sm_in.rank)

\* the json array is in ascending order without repeats
StrictlySorted(urls) == \A i \in DOMAIN urls : \A j \in DOMAIN urls : i < j => StrLess(urls[i], urls[j])

\* C23: a save_posted_article call whose url normalizes to the empty string
\* leaves the file as it was; any other leaves a file that is sorted, has no
\* duplicates and holds the normalized new url and the normalized form of
\* every entry the file held before the call.
C23_SaveKeepsEntries ==
    [][(st_saves' = st_saves + 1) =>
        IF Falsy(normalize_url(st_arg')) THEN posted_json' = posted_json
        ELSE /\ posted_json'.exists
             /\ StrictlySorted(posted_json'.urls)
             /\ normalize_url(st_arg') \in Range(posted_json'.urls)
             /\ \A e \in Range(posted_json.urls) :
                   normalize_url(e) \in Range(posted_json'.urls)]_vars

\* C28: a summarizer of type textrank whose ranking components load ranks
\* with TextRank whenever it ranks: for a document of at least 3 sentences
\* and a ranking that does not raise, the ranker is TextRank.
C28_TextRankRanks ==
    (sm_pc = "done" /\ sm_in.impl = "textrank" /\ sm_in.sumy = "ok"
     /\ ~Falsy(sm_in.text) /\ ~Falsy(clean_text(sm_in.text))
     /\ Len(document_sentences(clean_text(sm_in.text))) >= 3) =>
        sm_out.ranker = "textrank"

\* ------------------------------------ the sentence count specification
\* the count each graph-rank summarizer asks of the ranker, for a document
\* of doc_sentences >= 3 sentences and a max_sentences >= 1 drawn at the start

CnInit ==
    /\ StoreIdle /\ TrIdle /\ FbIdle /\ SmIdle /\ MainIdle /\ PgIdle /\ FcIdle /\ CcIdle
    /\ cn_out = NoRequests
    /\ cn_in \in [doc_sentences : 3..MaxDocSentences, max_sentences : 1..MaxSentences]

\* SumySummaryGenerator.summarize, lines 151-161
CnSumy ==
    /\ cn_out.sumy = NoCount
    /\ cn_out' = [cn_out EXCEPT !.sumy = optimal_sentences(cn_in.doc_sentences,
                                                            cn_in.max_sentences)]
    /\ UNCHANGED <<cn_in, storeVars, trVars, fbVars, smVars, mainVars, pgVars, fcVars, cc_runs>>

\* TextRankSummaryGenerator.summarize: _initialized is False, so the call is
\* SumySummaryGenerator.summarize (lines 507-510), which asks its ranker
CnTextRank ==
    /\ cn_out.textrank = NoCount
    /\ cn_out' = [cn_out EXCEPT !.textrank = optimal_sentences(cn_in.doc_sentences,
                                                                cn_in.max_sentences)]
    /\ UNCHANGED <<cn_in, storeVars, trVars, fbVars, smVars, mainVars, pgVars, fcVars, cc_runs>>

CnNext == CnSumy \/ CnTextRank

SpecCount == CnInit /\ [][CnNext]_vars

\* round(n * 0.15): to the nearest integer, a tie to the even one
round_15_percent(n) ==
    IF (15 * n) % 100 > 50 THEN ((15 * n) \div 100) + 1
    ELSE IF (15 * n) % 100 < 50 THEN (15 * n) \div 100
    ELSE ((15 * n) \div 100) + (((15 * n) \div 100) % 2)

Requested == {cn_out.sumy, cn_out.textrank} \ {NoCount}

\* C25 (as claimed): the count asked of the ranker is
\* min(max_sentences, max(2, round(n * 0.15))).
C25_RoundedCount ==
    \A k \in Requested :
        k = Min(cn_in.max_sentences, Max(2, round_15_percent(cn_in.doc_sentences)))

\* C25 (amended): the count k asked of the ranker is at most max_sentences;
\* when it is less, it is at least 2 and is 2 or the whole part of 15% of n;
\* when it is max_sentences, that is at most 2 or at most 15% of n.
C25_TruncatedCount ==
    \A k \in Requested :
        /\ k <= cn_in.max_sentences
        /\ k < cn_in.max_sentences =>
              /\ k >= 2
              /\ 100 * k <= Max(200, 15 * cn_in.doc_sentences)
              /\ 15 * cn_in.doc_sentences < 100 * (k + 1)
        /\ k = cn_in.max_sentences =>
              (k <= 2 \/ 100 * k <= 15 * cn_in.doc_sentences)

\* 17 sentences and max_sentences 3: 15% is 2.55, and 2 sentences are asked
C25_Witness ==
    /\ cn_in.doc_sentences = 17 /\ cn_in.max_sentences = 3
    /\ cn_out.sumy = 2 /\ cn_out.textrank = 2

\* ------------------------------------- the fallback tier of translate_text
\* the LLM tier answered with status 200 and a body that parses
LlmSucceeded == tr_in.use_openai /\ tr_in.api_key /\ tr_in.openai.kind = "ok"

FallbackCalledOnlyAfterLlm ==
    /\ tr_out.google_calls <= 1
    /\ tr_out.google_called <=> tr_out.google_calls = 1
    /\ tr_out.google_called => ~LlmSucceeded
    /\ LlmSucceeded => tr_out.google_calls = 0

SummarizerTypes == {"sumy", "textrank", "openai", "huggingface", "simple"}

\* the keyword arguments scrape_news passes (lines 56-67), by name
summarizer_kwargs(type, output_language) ==
    (IF type \in {"sumy", "textrank", "huggingface"} THEN {"language"} ELSE {})
    \cup (IF type = "openai" THEN {"api_key"} ELSE {})
    \cup (IF type = "openai" /\ output_language \notin {"absent", ""}
          THEN {"output_language"} ELSE {})

\* the parameters of each __init__; create_summarizer passes none to
\* SimpleSummaryGenerator
init_parameters(type) ==
    CASE type \in {"sumy", "textrank"} -> {"language"}
      [] type = "openai" -> {"model", "api_key", "max_tokens", "output_language"}
      [] type = "huggingface" -> {"model_name", "use_abstractive"}
      [] type = "simple" -> {}

\* create_summarizer(type, **kwargs) with OPENAI_API_KEY set or not
create_summarizer(type, kwargs, api_key) ==
    IF type \notin SummarizerTypes
    THEN [built |-> TRUE, instance |-> "none", raised |-> "ValueError"]
    ELSE IF type # "simple" /\ ~(kwargs \subseteq init_parameters(type))
    THEN [built |-> TRUE, instance |-> "none", raised |-> "TypeError"]
    ELSE IF init_raises(type, api_key)
    THEN [built |-> TRUE, instance |-> "none", raised |-> "ValueError"]
    ELSE [built |-> TRUE, instance |-> type, raised |-> "none"]

FcInit ==
    /\ StoreIdle /\ TrIdle /\ FbIdle /\ SmIdle /\ MainIdle /\ PgIdle /\ CnIdle /\ CcIdle
    /\ fc_out = NoFcOutput
    /\ fc_in \in [type : SummarizerTypes \cup {"bert"}, api_key : BOOLEAN,
                   language : {"absent", "sv", "en"},
                   output_language : {"absent", "", "bn"}]

\* scrape_news.py line 69
FcBuild ==
    /\ ~fc_out.built
    /\ fc_out' = create_summarizer(fc_in.type,
                                   summarizer_kwargs(fc_in.type, fc_in.output_language),
                                   fc_in.api_key)
    /\ UNCHANGED <<fc_in, storeVars, trVars, fbVars, smVars, mainVars, pgVars, cnVars, cc_runs>>

FcNext == FcBuild

SpecFactory == FcInit /\ [][FcNext]_vars

\* C29: built from the configuration, a recognized type whose credential is
\* present gives an instance of its implementation and nothing is raised; an
\* unrecognized type raises ValueError.
C29_FactoryBuildsEveryType ==
    fc_out.built =>
        /\ (fc_in.type \in SummarizerTypes /\ (fc_in.type = "openai" => fc_in.api_key)) =>
              (fc_out.instance = fc_in.type /\ fc_out.raised = "none")
        /\ fc_in.type \notin SummarizerTypes => fc_out.raised = "ValueError"

\* ---------------------------------------- the overlapping runs specification
\* two orchestrator processes on one posted.json, each inside
\* save_posted_article: the reload of line 126 and the write of lines 129-131
\* are two steps, and nothing orders the steps of one process against the
\* other's (no lock is taken on the file)

\* the arguments of save_posted_article: line 502 passes normalized_url, here
\* of two articles and of a link to the first whose href ends in '// / '
RecordedArgs ==
    {normalize_url(listing_url(h)) :
        h \in {<<"a">>, <<"b">>, <<"a", "/", "/", " ", "/", " ">>}}

\* lines 128-131 with the set reloaded on line 126; the mutant writes the new
\* url alone
write_posted_only_url(posted, url) ==
    [exists |-> TRUE, urls |-> Sorted({normalize_url(url)})]

write_posted(posted, url) ==
    [exists |-> TRUE, urls |-> Sorted(posted \cup {normalize_url(url)})]

CcInit ==
    /\ StoreIdle /\ TrIdle /\ FbIdle /\ SmIdle /\ MainIdle /\ PgIdle /\ CnIdle /\ FcIdle
    /\ cc_runs = <<NoRun, NoRun>>

\* line 126 (and 127-128: the url is not empty): posted = load_posted_articles()
CcReload(i) ==
    /\ cc_runs[i].pc = "idle"
    /\ cc_runs[i].saves < MaxRunSaves
    /\ \E u \in {a \in RecordedArgs : ~Falsy(normalize_url(a))} :
         cc_runs' = [cc_runs EXCEPT ![i] = [@ EXCEPT !.pc = "reloaded",
                                                    !.posted = load_posted_articles(posted_json),
                                                    !.url = u, !.stale = FALSE]]
    /\ UNCHANGED <<storeVars, trVars, fbVars, smVars, mainVars, pgVars, cnVars, fcVars>>

\* lines 129-131: the file is rewritten from this process's set; a process
\* that reloaded before this write now holds a stale set
CcWrite(i) ==
    /\ cc_runs[i].pc = "reloaded"
    /\ posted_json' = write_posted(cc_runs[i].posted, cc_runs[i].url)
    /\ cc_runs' = [j \in {1, 2} |->
                     IF j = i
                     THEN [cc_runs[j] EXCEPT !.pc = "idle",
                                             !.recorded = @ \cup {normalize_url(cc_runs[i].url)},
                                             !.wrote_stale = @ \/ cc_runs[i].stale,
                                             !.saves = @ + 1]
                     ELSE [cc_runs[j] EXCEPT !.stale = @ \/ cc_runs[j].pc = "reloaded"]]
    /\ UNCHANGED <<stVars, trVars, fbVars, smVars, mainVars, pgVars, cnVars, fcVars>>

\* the run ends between two articles
CcFinish(i) ==
    /\ cc_runs[i].pc = "idle"
    /\ cc_runs' = [cc_runs EXCEPT ![i] = [@ EXCEPT !.pc = "finished"]]
    /\ UNCHANGED <<storeVars, trVars, fbVars, smVars, mainVars, pgVars, cnVars, fcVars>>

CcNext == \E i \in {1, 2} : CcReload(i) \/ CcWrite(i) \/ CcFinish(i)

SpecOverlap == CcInit /\ [][CcNext]_vars

\* C26: nothing keeps the load and write steps of two runs apart, and an
\* interleaving of them loses a recorded url (C26_Witness: both runs have
\* finished and a url one of them recorded is not in the persisted store);
\* a recorded url is lost only that way: as long as no run has written from
\* a set it loaded before the other's write, the store holds every url
\* recorded so far (of the urls normalize_url leaves as they are: the store
\* normalizes its entries again at each load).
C26_LossOnlyFromOverlap ==
    (\A i \in {1, 2} : ~cc_runs[i].wrote_stale) =>
        \A i \in {1, 2} : \A u \in cc_runs[i].recorded :
            normalize_url(u) = u => u \in load_posted_articles(posted_json)

C26_Witness ==
    /\ \A i \in {1, 2} : cc_runs[i].pc = "finished"
    /\ \E i \in {1, 2} : \E u \in cc_runs[i].recorded :
         normalize_url(u) = u /\ u \notin load_posted_articles(posted_json)

\* ------------------------------------------ the page parser specification
\* parse_category_page on a listing page of standard structure whose links
\* are drawn one at a time, in document order

LISTING_LIMIT == 5        \* articles[:5]

\* a link is its text as get_text(strip=True) gives it and its href
PageHrefs == {<<>>, <<"a">>, <<"b">>, <<"c">>, <<"d">>, <<"e">>, <<"f">>,
              <<"a", "/">>, <<"a", " ">>, <<"h", "a">>}
PageLinks == [title : {<<>>, <<"T">>}, href : PageHrefs]

\* seen_urls holds the url of every article appended so far
seen_urls(articles) == {articles[i].url : i \in DOMAIN articles}

\* lines 163-167 and 190-219 for the link at position pos of the document
take_link(articles, link, pos) ==
    IF Falsy(link.title) \/ Falsy(link.href) THEN articles
    ELSE IF listing_url(link.href) \in seen_urls(articles) THEN articles
    ELSE Append(articles, [title_sv |-> Strip(link.title), url |-> listing_url(link.href),
                           link |-> pos])

PgInit == StoreIdle /\ TrIdle /\ FbIdle /\ SmIdle /\ MainIdle /\ AuxIdle

PgLink ==
    /\ ~pg_ret.returned
    /\ pg_links < MaxLinks
    /\ \E link \in PageLinks : pg_articles' = take_link(pg_articles, link, pg_links + 1)
    /\ pg_links' = pg_links + 1
    /\ UNCHANGED <<pg_ret, storeVars, trVars, fbVars, smVars, mainVars, cnVars, fcVars, cc_runs>>

\* line 221
PgReturn ==
    /\ ~pg_ret.returned
    /\ pg_ret' = [returned |-> TRUE, articles |-> Prefix(pg_articles, LISTING_LIMIT)]
    /\ UNCHANGED <<pg_links, pg_articles, storeVars, trVars, fbVars, smVars, mainVars,
                   cnVars, fcVars, cc_runs>>

PgNext == PgLink \/ PgReturn

SpecPage == PgInit /\ [][PgNext]_vars

\* C21: what parse_category_page returns has at most 5 articles, in the
\* order of their links in the document, no two of them with the same
\* normalized url, each with a non-empty title and url.
C21_ListingContract ==
    pg_ret.returned =>
        /\ Len(pg_ret.articles) <= 5
        /\ \A i \in DOMAIN pg_ret.articles :
              ~Falsy(pg_ret.articles[i].title_sv) /\ ~Falsy(pg_ret.articles[i].url)
        /\ \A i \in DOMAIN pg_ret.articles : \A j \in DOMAIN pg_ret.articles :
              i < j => /\ pg_ret.articles[i].link < pg_ret.articles[j].link
                       /\ normalize_url(pg_ret.articles[i].url)
                            # normalize_url(pg_ret.articles[j].url)

====
